---- MODULE Spec2Model ----
(***************************************************************************)
(* Math Quest (src/src/main.rs): quiz generation with word-problem         *)
(* placeholders, the sequential enrichment run, single-slot regenerate,    *)
(* grading, reset and answer editing over the shared yew state handles.    *)
(*                                                                         *)
(* Texts that the code parses (user answers, the count field) are          *)
(* sequences of one-character strings.  Formatted texts that the code only *)
(* builds and compares (prompts, kind labels) are tuples of the format     *)
(* string and its arguments.                                               *)
(***************************************************************************)
EXTENDS Integers, Sequences, FiniteSets, TLC

(***************************************************************************)
(* Bounds of the model.                                                    *)
(***************************************************************************)
\* Math::random() returns k/RandDen for a numerator k of the stream in use.
RandDen == 16
\* Inputs of the user in one behaviour: clicks, answer edits and changes of
\* the configuration form.
MaxEvents == 4
\* Of these, clicks on "Generate Quiz".
MaxGenerates == 2
\* Of these, clicks on a "Regenerate" button.
MaxRegens == 1
\* Answer boxes the user types into are those of slots 0..MaxEditSlot.
MaxEditSlot == 0

(***************************************************************************)
(* Inputs.                                                                 *)
(***************************************************************************)
\* Streams of numerators that the Math::random() calls of one handler
\* return, one after the other; a stream is read cyclically.
RandomStreams == { <<5, 15>>, <<0, 5, 15, 5, 15, 5, 15>> }
\* The streams a build is tried on alone: those, and every stream of one or
\* two numerators out of a low, a middle and a high one.
BuildStreams ==
    RandomStreams \cup { <<a>> : a \in { 0, 5, 15 } }
                  \cup { <<a, b>> : a, b \in { 0, 5, 15 } }
\* Texts typed into an answer box.
UserInputs == { <<"0">>, <<" ", "7", " ">>, <<"s", "e", "v", "e", "n">> }
\* Texts typed into the "Number of questions" field.
CountInputs == { <<"3">> }
\* Values of the difficulty select.
DifficultyInputs == { "advanced", "" }
\* Checkboxes of the form the user switches, and to what.
ToggleInputs == { <<"words", FALSE>> }
\* Well-formed bodies the Worker answers with.
AiResponses == { [prompt |-> <<"A farmer has 3 cows and buys 4 more.", 0, 0>>, answer |-> 7] }
\* What a remote call ends with: success, or one of the three failures.
Failures == { "transport", "status", "malformed" }
Outcomes == { "ok" } \cup Failures

(***************************************************************************)
(* Types (main.rs:20-57).                                                  *)
(***************************************************************************)
Difficulty == { "Easy", "Moderate", "Advanced" }

None == << >>
Some(x) == << x >>

default_config ==
    [ num_questions |-> 10, difficulty |-> "Easy",
      include_add |-> TRUE, include_sub |-> TRUE,
      include_mul |-> FALSE, include_div |-> FALSE,
      include_words |-> TRUE ]

Question_graded(prompt, kind, answer) ==
    [ prompt |-> prompt, kind |-> kind, answer |-> answer,
      user_answer |-> << >>, is_correct |-> Some(FALSE) ]

Question(prompt, kind, answer) ==
    [ prompt |-> prompt, kind |-> kind, answer |-> answer,
      user_answer |-> << >>, is_correct |-> None ]

(***************************************************************************)
(* Texts: str::trim and str::parse.                                        *)
(***************************************************************************)
\* Integers here are 32-bit, so the limits of i32 and of usize (32-bit on
\* wasm32) are kept as digit texts and overflow is decided on the digits.
I32MaxText == <<"2", "1", "4", "7", "4", "8", "3", "6", "4", "7">>
I32MinText == <<"2", "1", "4", "7", "4", "8", "3", "6", "4", "8">>
UsizeMaxText == <<"4", "2", "9", "4", "9", "6", "7", "2", "9", "5">>

WhiteSpace == { " ", "\t", "\n", "\r" }
Digits == { "0", "1", "2", "3", "4", "5", "6", "7", "8", "9" }
DigitVal(c) ==
    CASE c = "0" -> 0 [] c = "1" -> 1 [] c = "2" -> 2 [] c = "3" -> 3
      [] c = "4" -> 4 [] c = "5" -> 5 [] c = "6" -> 6 [] c = "7" -> 7
      [] c = "8" -> 8 [] c = "9" -> 9

RECURSIVE trim_start(_)
trim_start(s) ==
    IF s # << >> /\ Head(s) \in WhiteSpace THEN trim_start(Tail(s)) ELSE s

RECURSIVE trim_end(_)
trim_end(s) ==
    IF s # << >> /\ s[Len(s)] \in WhiteSpace
    THEN trim_end(SubSeq(s, 1, Len(s) - 1)) ELSE s

trim_identity(s) == s
trim(s) == trim_end(trim_start(s))

all_digits(s) == \A i \in DOMAIN s : s[i] \in Digits

RECURSIVE strip_zeros(_)
strip_zeros(s) == IF s # << >> /\ Head(s) = "0" THEN strip_zeros(Tail(s)) ELSE s

\* a <= b for digit texts of the same length
RECURSIVE digits_le(_, _)
digits_le(a, b) ==
    IF a = << >> THEN TRUE
    ELSE IF DigitVal(Head(a)) # DigitVal(Head(b))
         THEN DigitVal(Head(a)) < DigitVal(Head(b))
         ELSE digits_le(Tail(a), Tail(b))

\* the number written by s is at most the number written by limit
fits(s, limit) ==
    LET t == strip_zeros(s)
    IN  Len(t) < Len(limit) \/ (Len(t) = Len(limit) /\ digits_le(t, limit))

\* acc * 10 + sign * digit over the digits of s, as from_str_radix folds them
RECURSIVE fold_digits(_, _, _)
fold_digits(s, acc, sign) ==
    IF s = << >> THEN acc
    ELSE fold_digits(Tail(s), acc * 10 + sign * DigitVal(Head(s)), sign)

\* str::parse::<i32>: an optional sign, then digits only, at least one, and
\* no overflow
parse_i32(s) ==
    LET signed == s # << >> /\ Head(s) \in { "+", "-" }
        negative == s # << >> /\ Head(s) = "-"
        digits == IF signed THEN Tail(s) ELSE s
    IN  IF digits = << >> \/ ~all_digits(digits) THEN None
        ELSE IF ~fits(digits, IF negative THEN I32MinText ELSE I32MaxText) THEN None
        ELSE Some(fold_digits(digits, 0, IF negative THEN -1 ELSE 1))

\* str::parse::<usize>: an optional "+", then digits only, at least one, and
\* no overflow.  A value above the i32 range is carried as the i32 maximum.
parse_usize(s) ==
    LET signed == s # << >> /\ Head(s) = "+"
        digits == IF signed THEN Tail(s) ELSE s
    IN  IF digits = << >> \/ ~all_digits(digits) THEN None
        ELSE IF ~fits(digits, UsizeMaxText) THEN None
        ELSE IF fits(digits, I32MaxText) THEN Some(fold_digits(digits, 0, 1))
        ELSE Some(fold_digits(I32MaxText, 0, 1))

clamp_none(v, lo, hi) == v
unwrap_or(opt, d) == IF opt = None THEN d ELSE opt[1]
clamp(v, lo, hi) == IF v < lo THEN lo ELSE IF v > hi THEN hi ELSE v

(***************************************************************************)
(* The random source of one handler: rng = [s |-> the stream it reads,     *)
(* pos |-> the position of the next call].                                 *)
(***************************************************************************)
seed(stream) == [ s |-> stream, pos |-> 1 ]
random(rng) == rng.s[rng.pos]
advance(rng) == [rng EXCEPT !.pos = (rng.pos % Len(rng.s)) + 1]

\* min + ((r * ((max - min + 1) as f64)) as i32), r = k / RandDen
rand_int(min, max, k) == min + ((k * (max - min + 1)) \div RandDen)

(***************************************************************************)
(* Labels and formats.                                                     *)
(***************************************************************************)
difficulty_code(diff) ==
    CASE diff = "Easy" -> "easy"
      [] diff = "Moderate" -> "moderate"
      [] diff = "Advanced" -> "advanced"

difficulty_label(diff) ==
    CASE diff = "Easy" -> "Easy"
      [] diff = "Moderate" -> "Moderate"
      [] diff = "Advanced" -> "Advanced"

LoadingPrompt == <<"Loading AI word problem...", 0, 0>>
FallbackFmt == "Kiki has {a} stickers. She gets {b} more from a friend. How many stickers does Kiki have now?"
\* format!("Word Problem 🌟 ({})", ..): the text is kept without its star glyph.
WordProblemFmt == "Word Problem ({})"
word_kind(cfg) == <<WordProblemFmt, difficulty_label(cfg.difficulty)>>
basic_kind(label) == <<label, "">>

\* kind.contains("Word Problem"): of the kind labels the program builds,
\* only the word-problem format holds that text.
contains_word_problem(kind) == kind[1] = WordProblemFmt

(***************************************************************************)
(* generate_basic_question (main.rs:108-158).  Returns the question        *)
(* content and the random source after its draws.                          *)
(***************************************************************************)
add_sub_range_wide(diff) ==
    CASE diff = "Easy" -> <<0, 10>>
      [] diff = "Moderate" -> <<10, 100>>
      [] diff = "Advanced" -> <<100, 1000>>

add_sub_range(diff) ==
    CASE diff = "Easy" -> <<0, 9>>
      [] diff = "Moderate" -> <<10, 99>>
      [] diff = "Advanced" -> <<100, 999>>

mul_range(diff) ==
    CASE diff = "Easy" -> <<0, 5>>
      [] diff = "Moderate" -> <<2, 12>>
      [] diff = "Advanced" -> <<5, 20>>

div_range(diff) ==
    CASE diff = "Easy" -> <<1, 9>>
      [] diff = "Moderate" -> <<2, 12>>
      [] diff = "Advanced" -> <<5, 20>>

\* main.rs:127: the second operand of a subtraction is drawn from [0, a]
sub_second_range_same(m, a) == m
sub_second_range(m, a) == <<0, a>>

\* main.rs:148: the divisor is drawn from [1, max_q]
div_divisor_range_zero(m) == <<0, m[2]>>
div_divisor_range(m) == <<1, m[2]>>

generate_basic_question(cfg, op, rng) ==
    LET g1 == advance(rng)
        g2 == advance(g1)
        k1 == random(rng)
        k2 == random(g1)
    IN  CASE op = "Add" ->
               LET m == add_sub_range(cfg.difficulty)
                   a == rand_int(m[1], m[2], k1)
                   b == rand_int(m[1], m[2], k2)
               IN  [ prompt |-> <<"{a} + {b} = ?", a, b>>, answer |-> a + b,
                     kind |-> basic_kind("Addition"), rng |-> g2 ]
          [] op = "Sub" ->
               LET m == add_sub_range(cfg.difficulty)
                   a == rand_int(m[1], m[2], k1)
                   r == sub_second_range(m, a)
                   b == rand_int(r[1], r[2], k2)
               IN  [ prompt |-> <<"{a} - {b} = ?", a, b>>, answer |-> a - b,
                     kind |-> basic_kind("Subtraction"), rng |-> g2 ]
          [] op = "Mul" ->
               LET m == mul_range(cfg.difficulty)
                   a == rand_int(m[1], m[2], k1)
                   b == rand_int(m[1], m[2], k2)
               IN  [ prompt |-> <<"{a} x {b} = ?", a, b>>, answer |-> a * b,
                     kind |-> basic_kind("Multiplication"), rng |-> g2 ]
          [] op = "Div" ->
               LET m == div_range(cfg.difficulty)
                   d == div_divisor_range(m)
                   divisor == rand_int(d[1], d[2], k1)
                   quotient == rand_int(m[1], m[2], k2)
                   dividend == divisor * quotient
               IN  [ prompt |-> <<"{dividend} / {divisor} = ?", dividend, divisor>>,
                     answer |-> quotient,
                     kind |-> basic_kind("Division"), rng |-> g2 ]

(***************************************************************************)
(* generate_fallback_word_problem (main.rs:161-174).                       *)
(***************************************************************************)
fallback_answer_product(a, b) == a * b
fallback_answer(a, b) == a + b

generate_fallback_word_problem(cfg, rng) ==
    LET g1 == advance(rng)
        a == rand_int(3, 15, random(rng))
        b == rand_int(2, 10, random(g1))
    IN  [ prompt |-> <<FallbackFmt, a, b>>, answer |-> fallback_answer(a, b),
          kind |-> word_kind(cfg), rng |-> advance(g1) ]

(***************************************************************************)
(* generate_questions_with_ai_placeholders (main.rs:178-237).              *)
(***************************************************************************)
forced_ops_none(ops, cfg) == ops
forced_ops(ops, cfg) ==
    IF ops = << >> /\ ~cfg.include_words THEN Append(ops, "Add") ELSE ops

enabled_ops_of(cfg) ==
    LET o1 == IF cfg.include_add THEN <<"Add">> ELSE << >>
        o2 == IF cfg.include_sub THEN Append(o1, "Sub") ELSE o1
        o3 == IF cfg.include_mul THEN Append(o2, "Mul") ELSE o2
        o4 == IF cfg.include_div THEN Append(o3, "Div") ELSE o3
    IN  forced_ops(o4, cfg)

placeholder(cfg) == Question(LoadingPrompt, word_kind(cfg), 0)

\* One pass of the loop body at main.rs:201-225.  st holds the loop's
\* variables: questions, ai_count, the random source, and whether the
\* indexing at main.rs:214 went out of bounds.
build_slot(cfg, enabled_ops, st) ==
    LET ai_word_enabled == cfg.include_words
        \* && evaluates rand_int only when word problems are enabled
        g1 == IF ai_word_enabled THEN advance(st.rng) ELSE st.rng
        make_word == ai_word_enabled /\ rand_int(0, 3, random(st.rng)) = 0
    IN  IF make_word
        THEN [ st EXCEPT !.questions = Append(@, placeholder(cfg)),
                         !.ai_count = @ + 1, !.rng = g1 ]
        ELSE LET idx == rand_int(0, Len(enabled_ops) - 1, random(g1))
                 g2 == advance(g1)
             IN  IF idx + 1 > Len(enabled_ops)
                 THEN [ st EXCEPT !.panic = TRUE, !.rng = g2 ]
                 ELSE LET q == generate_basic_question(cfg, enabled_ops[idx + 1], g2)
                      IN  [ st EXCEPT
                              !.questions = Append(@, Question(q.prompt, q.kind, q.answer)),
                              !.rng = q.rng ]

RECURSIVE build_loop(_, _, _, _)
build_loop(cfg, enabled_ops, st, todo) ==
    IF todo = 0 \/ st.panic THEN st
    ELSE build_loop(cfg, enabled_ops, build_slot(cfg, enabled_ops, st), todo - 1)

\* main.rs:227-234
guarantee_none(cfg, st) == st
guarantee_word_problem(cfg, st) ==
    IF ~st.panic /\ cfg.include_words /\ st.ai_count = 0 /\ st.questions # << >>
    THEN [ st EXCEPT !.questions[1].prompt = LoadingPrompt,
                     !.questions[1].answer = 0,
                     !.questions[1].kind = word_kind(cfg) ]
    ELSE st

generate_questions_with_ai_placeholders(cfg, rng) ==
    guarantee_word_problem(cfg,
        build_loop(cfg, enabled_ops_of(cfg),
                   [ questions |-> << >>, ai_count |-> 0, rng |-> rng, panic |-> FALSE ],
                   cfg.num_questions))

(***************************************************************************)
(* fetch_ai_word_problem (main.rs:242-274): the request it sends, and what *)
(* it returns for each way the call can end.                               *)
(***************************************************************************)
max_number_of_easy(diff) == 9

max_number_of(diff) ==
    CASE diff = "Easy" -> 9
      [] diff = "Moderate" -> 99
      [] diff = "Advanced" -> 999

AiWordProblemRequest(cfg) ==
    [ difficulty |-> difficulty_code(cfg.difficulty),
      max_number |-> max_number_of(cfg.difficulty) ]

fetch_ai_word_problem(cfg, outcome, data) ==
    IF outcome = "ok"
    THEN Some([ prompt |-> data.prompt, answer |-> data.answer, kind |-> word_kind(cfg) ])
    ELSE None

\* main.rs:388-395 and 423-430: the remote result, or the local fallback.
\* The fallback alone draws from the random source.
replacement_or_fallback(cfg, outcome, data, rng) ==
    LET replacement == fetch_ai_word_problem(cfg, outcome, data)
    IN  IF replacement # None
        THEN [ prompt |-> replacement[1].prompt, answer |-> replacement[1].answer,
               kind |-> replacement[1].kind, rng |-> rng ]
        ELSE generate_fallback_word_problem(cfg, rng)

\* main.rs:397-400 and 433-436
set_slot(qs, idx, r) ==
    [ qs EXCEPT ![idx + 1].prompt = r.prompt,
                ![idx + 1].answer = r.answer,
                ![idx + 1].kind = r.kind ]

(***************************************************************************)
(* State.                                                                  *)
(***************************************************************************)
VARIABLES
    config,         \* use_state(default_config)
    questions,      \* use_state(Vec::<Question>::new): the published list
    show_results,   \* use_state(|| false)
    score,          \* use_state(|| (0, 0)): <<correct, total>>
    runs,           \* the tasks spawned by on_generate, in spawn order
    regens,         \* the tasks spawned by on_regen_ai, in spawn order
    net,            \* the requests sent to the Worker and not yet answered
    panicked,       \* the program has panicked
    events          \* how many inputs the user has made

vars == << config, questions, show_results, score, runs, regens, net,
           panicked, events >>

Init ==
    /\ config = default_config
    /\ questions = << >>
    /\ show_results = FALSE
    /\ score = <<0, 0>>
    /\ runs = << >>
    /\ regens = << >>
    /\ net = { }
    /\ panicked = FALSE
    /\ events = 0

(***************************************************************************)
(* on_generate (main.rs:349-409).                                          *)
(***************************************************************************)
\* main.rs:367-372: the indexes of the word-problem rows, in list order
RECURSIVE ai_indexes_from(_, _)
ai_indexes_from(qs, i) ==
    IF i > Len(qs) THEN << >>
    ELSE IF contains_word_problem(qs[i].kind)
         THEN <<i - 1>> \o ai_indexes_from(qs, i + 1)
         ELSE ai_indexes_from(qs, i + 1)

ai_indexes_of(qs) == ai_indexes_from(qs, 1)

\* The requests a run sends when its loop reaches position k of its index
\* list: the one for that index, awaited before the loop goes on.
run_requests_all(id, run, k) ==
    { [ task |-> <<"generate", id>>, slot |-> run.ai_indexes[j],
        body |-> AiWordProblemRequest(run.cfg) ] : j \in k .. Len(run.ai_indexes) }
run_requests(id, run, k) ==
    IF k <= Len(run.ai_indexes)
    THEN { [ task |-> <<"generate", id>>, slot |-> run.ai_indexes[k],
             body |-> AiWordProblemRequest(run.cfg) ] }
    ELSE { }

\* A task that has left its loop has dropped its locals.
Finished == [ cfg |-> default_config, qs |-> << >>, ai_indexes |-> << >>,
              k |-> 0, published |-> 0, ai_count |-> 0 ]
finish(run) == IF run.k > Len(run.ai_indexes) THEN Finished ELSE run

\* The click, and the spawned task up to its first await: build, publish
\* the skeleton, send the first request.
Generate(stream) ==
    /\ ~panicked
    /\ events < MaxEvents
    /\ Len(runs) < MaxGenerates
    /\ LET cfg == config
           built == generate_questions_with_ai_placeholders(cfg, seed(stream))
           qs == built.questions
           id == Len(runs) + 1
           run == [ cfg |-> cfg, qs |-> qs, ai_indexes |-> ai_indexes_of(qs),
                    k |-> 1, published |-> 1, ai_count |-> built.ai_count ]
       IN  /\ IF built.panic
              THEN /\ panicked' = TRUE
                   /\ UNCHANGED << questions, show_results, score, runs, net >>
              ELSE /\ questions' = qs
                   /\ show_results' = FALSE
                   /\ score' = <<0, Len(qs)>>
                   /\ runs' = Append(runs, finish(run))
                   /\ net' = net \cup run_requests(id, run, 1)
                   /\ UNCHANGED panicked
    /\ events' = events + 1
    /\ UNCHANGED << config, regens >>

\* main.rs:397-405: the run publishes its own vec, whole, when the slot is
\* in range, and nothing otherwise.
republish_skipped(current, qs, in_range) == current
republish_merged(current, qs, in_range) ==
    IF in_range
    THEN [ i \in DOMAIN qs |->
             IF i \in DOMAIN current /\ qs[i].prompt = LoadingPrompt
                  /\ current[i].prompt # LoadingPrompt
             THEN current[i] ELSE qs[i] ]
    ELSE current
republish(current, qs, in_range) == IF in_range THEN qs ELSE current

\* One remote call of a run ends: the rest of the loop body, and the loop
\* up to its next await (main.rs:389-406).
RunResolve(req, outcome, data, stream) ==
    /\ ~panicked
    /\ req \in net
    /\ req.task[1] = "generate"
    /\ LET id == req.task[2]
           run == runs[id]
           idx == run.ai_indexes[run.k]
           r == replacement_or_fallback(run.cfg, outcome, data, seed(stream))
           in_range == idx + 1 <= Len(run.qs)
           qs == IF in_range THEN set_slot(run.qs, idx, r) ELSE run.qs
           after == [ run EXCEPT !.qs = qs, !.k = @ + 1,
                                 !.published = IF in_range THEN @ + 1 ELSE @ ]
       IN  /\ questions' = republish(questions, qs, in_range)
           /\ runs' = [ runs EXCEPT ![id] = finish(after) ]
           /\ net' = (net \ { req }) \cup run_requests(id, after, after.k)
    /\ UNCHANGED << config, show_results, score, regens, panicked, events >>

(***************************************************************************)
(* on_regen_ai (main.rs:413-443).                                          *)
(***************************************************************************)
\* The click on the "Regenerate" button of row idx (rendered for the
\* word-problem rows only, main.rs:771-776), and the spawned task up to its
\* await.  The task keeps the questions_state handle the callback was built
\* with (main.rs:415, 419): the list of the render the click happened in.
Regenerated == [ cfg |-> default_config, idx |-> 0, handle |-> << >>, done |-> TRUE ]

RegenClick(idx) ==
    /\ ~panicked
    /\ events < MaxEvents
    /\ Len(regens) < MaxRegens
    /\ idx + 1 <= Len(questions)
    /\ contains_word_problem(questions[idx + 1].kind)
    /\ LET id == Len(regens) + 1
           task == [ cfg |-> config, idx |-> idx, handle |-> questions, done |-> FALSE ]
       IN  /\ regens' = Append(regens, task)
           /\ net' = net \cup { [ task |-> <<"regen", id>>, slot |-> idx,
                                  body |-> AiWordProblemRequest(config) ] }
    /\ events' = events + 1
    /\ UNCHANGED << config, questions, show_results, score, runs, panicked >>

\* What *questions_state reads at main.rs:432, after the await.  A yew state
\* handle dereferences to the value it was created with, so the task reads
\* the list of the render its callback was built in; a handle that follows
\* the store reads the list published last.  Which one depends on the yew
\* release the program is built against.
regen_reads_latest(task, published) == { published }
regen_reads(task, published) == { task.handle, published }

\* The remote call of a regenerate ends (main.rs:424-440).
RegenResolve(req, outcome, data, stream) ==
    /\ ~panicked
    /\ req \in net
    /\ req.task[1] = "regen"
    /\ LET id == req.task[2]
           task == regens[id]
           r == replacement_or_fallback(task.cfg, outcome, data, seed(stream))
       IN  /\ \E base \in regen_reads(task, questions) :
                 questions' = IF task.idx + 1 <= Len(base)
                              THEN set_slot(base, task.idx, r)
                              ELSE questions
           /\ regens' = [ regens EXCEPT ![id] = Regenerated ]
           /\ net' = net \ { req }
    /\ UNCHANGED << config, show_results, score, runs, panicked, events >>

(***************************************************************************)
(* on_reset_answers (main.rs:447-462).                                     *)
(***************************************************************************)
\* main.rs:453-456: what the loop does to one question
reset_one_text_only(q) == [ q EXCEPT !.user_answer = << >> ]
reset_one(q) == [ q EXCEPT !.user_answer = << >>, !.is_correct = None ]

ResetAnswers ==
    /\ ~panicked
    /\ events < MaxEvents
    /\ LET qs == [ i \in DOMAIN questions |-> reset_one(questions[i]) ]
       IN  /\ questions' = qs
           /\ show_results' = FALSE
           /\ score' = <<0, Len(qs)>>
    /\ events' = events + 1
    /\ UNCHANGED << config, runs, regens, net, panicked >>

(***************************************************************************)
(* on_check_answers (main.rs:466-490).                                     *)
(***************************************************************************)
\* main.rs:475-484: the flag one question gets
grade_one(q) ==
    LET parsed == parse_i32(trim(q.user_answer))
    IN  IF parsed # None THEN Some(parsed[1] = q.answer) ELSE Some(FALSE)

\* main.rs:472, 478-480, 486: the score of a pass, counted from 0
count_correct_patched(qs, before) ==
    before[1] + Cardinality({ i \in DOMAIN qs : qs[i].is_correct = Some(TRUE) })
count_correct(qs, before) ==
    Cardinality({ i \in DOMAIN qs : qs[i].is_correct = Some(TRUE) })

CheckAnswers ==
    /\ ~panicked
    /\ events < MaxEvents
    /\ LET qs == [ i \in DOMAIN questions |->
                     [ questions[i] EXCEPT !.is_correct = grade_one(questions[i]) ] ]
           total == Len(qs)
       IN  /\ score' = <<count_correct(qs, score), total>>
           /\ questions' = qs
           /\ show_results' = TRUE
    /\ events' = events + 1
    /\ UNCHANGED << config, runs, regens, net, panicked >>

(***************************************************************************)
(* on_answer_change of QuestionRow (main.rs:696-708).                      *)
(***************************************************************************)
AnswerChange(index, value) ==
    /\ ~panicked
    /\ events < MaxEvents
    /\ index + 1 <= Len(questions)
    /\ questions' = [ questions EXCEPT ![index + 1].user_answer = value,
                                       ![index + 1].is_correct = None ]
    /\ events' = events + 1
    /\ UNCHANGED << config, show_results, score, runs, regens, net, panicked >>

(***************************************************************************)
(* The configuration handlers (main.rs:286-336).                           *)
(***************************************************************************)
SetConfig(c) ==
    /\ ~panicked
    /\ events < MaxEvents
    /\ config' = c
    /\ events' = events + 1
    /\ UNCHANGED << questions, show_results, score, runs, regens, net, panicked >>

on_num_questions(text) ==
    LET val == unwrap_or(parse_usize(text), 10)
        clamped == clamp(val, 5, 20)
    IN  SetConfig([ config EXCEPT !.num_questions = clamped ])

on_difficulty_change(value) ==
    SetConfig([ config EXCEPT !.difficulty =
                    CASE value = "moderate" -> "Moderate"
                      [] value = "advanced" -> "Advanced"
                      [] OTHER -> "Easy" ])

toggle_checkbox(field, checked) ==
    SetConfig(CASE field = "add" -> [ config EXCEPT !.include_add = checked ]
                [] field = "sub" -> [ config EXCEPT !.include_sub = checked ]
                [] field = "mul" -> [ config EXCEPT !.include_mul = checked ]
                [] field = "div" -> [ config EXCEPT !.include_div = checked ]
                [] field = "words" -> [ config EXCEPT !.include_words = checked ]
                [] OTHER -> config)

(***************************************************************************)
(* The program.                                                            *)
(***************************************************************************)
Next ==
    \/ \E stream \in RandomStreams : Generate(stream)
    \/ \E req \in net, outcome \in Outcomes, data \in AiResponses, stream \in RandomStreams :
          RunResolve(req, outcome, data, stream)
    \/ \E idx \in 0 .. 19 : RegenClick(idx)
    \/ \E req \in net, outcome \in Outcomes, data \in AiResponses, stream \in RandomStreams :
          RegenResolve(req, outcome, data, stream)
    \/ ResetAnswers
    \/ CheckAnswers
    \/ \E index \in 0 .. MaxEditSlot, value \in UserInputs : AnswerChange(index, value)
    \/ \E text \in CountInputs : on_num_questions(text)
    \/ \E value \in DifficultyInputs : on_difficulty_change(value)
    \/ \E t \in ToggleInputs : toggle_checkbox(t[1], t[2])

Spec == Init /\ [][Next]_vars

(***************************************************************************)
(* The build alone: the first click on "Generate Quiz", for every          *)
(* configuration the form can be brought to.                               *)
(***************************************************************************)
Configs ==
    [ num_questions : 5 .. 20, difficulty : Difficulty,
      include_add : BOOLEAN, include_sub : BOOLEAN,
      include_mul : BOOLEAN, include_div : BOOLEAN,
      include_words : BOOLEAN ]

InitBuild ==
    /\ config \in Configs
    /\ questions = << >>
    /\ show_results = FALSE
    /\ score = <<0, 0>>
    /\ runs = << >>
    /\ regens = << >>
    /\ net = { }
    /\ panicked = FALSE
    /\ events = 0

NextBuild == \E stream \in BuildStreams : runs = << >> /\ Generate(stream)

SpecBuild == InitBuild /\ [][NextBuild]_vars

(***************************************************************************)
(* The configuration form alone: the three handlers, on every kind of text *)
(* the count field can hold, every value of the select and every checkbox. *)
(***************************************************************************)
CountTexts ==
    { <<"3">>, <<"0">>, <<"4">>, <<"5">>, <<"1", "2">>, <<"2", "0">>, <<"2", "1">>,
      <<"9", "9", "9">>, <<"0", "0", "7">>, <<"+", "7">>,
      << >>, <<"a", "b", "c">>, <<" ", "7">>, <<"4", ".", "5">>, <<"-", "1">>,
      UsizeMaxText, <<"4", "2", "9", "4", "9", "6", "7", "2", "9", "6">> }

DifficultyValues == { "easy", "moderate", "advanced", "" }

CheckboxFields == { "add", "sub", "mul", "div", "words" }

NextConfig ==
    \/ \E text \in CountTexts : on_num_questions(text)
    \/ \E value \in DifficultyValues : on_difficulty_change(value)
    \/ \E field \in CheckboxFields, checked \in BOOLEAN : toggle_checkbox(field, checked)

SpecConfig == Init /\ [][NextConfig]_vars

(***************************************************************************)
(* generate_basic_question alone: one question of every operation, for     *)
(* every difficulty and every pair of values its two Math::random() calls  *)
(* can return.  The question it returns is put where the build puts it, in *)
(* the list, as the only row.                                              *)
(***************************************************************************)
BaseOp == { "Add", "Sub", "Mul", "Div" }

DrawPairs == { <<k1, k2>> : k1, k2 \in 0 .. RandDen - 1 }

InitBasic ==
    /\ config \in { [ default_config EXCEPT !.difficulty = d ] : d \in Difficulty }
    /\ questions = << >>
    /\ show_results = FALSE
    /\ score = <<0, 0>>
    /\ runs = << >>
    /\ regens = << >>
    /\ net = { }
    /\ panicked = FALSE
    /\ events = 0

BasicQuestion(op, stream) ==
    /\ questions = << >>
    /\ LET q == generate_basic_question(config, op, seed(stream))
       IN  questions' = << Question(q.prompt, q.kind, q.answer) >>
    /\ UNCHANGED << config, show_results, score, runs, regens, net, panicked, events >>

NextBasic == \E op \in BaseOp, stream \in DrawPairs : BasicQuestion(op, stream)

SpecBasic == InitBasic /\ [][NextBasic]_vars

(***************************************************************************)
(* C1.  For every configuration (question_count in 5..20, any difficulty,  *)
(* any set of enabled operations, the empty one too, word problems on or   *)
(* off) the build completes without failing and returns a list of exactly  *)
(* question_count questions.                                               *)
(***************************************************************************)
C1_BuildReturnsCount ==
    /\ ~panicked
    /\ runs # << >> => Len(questions) = config.num_questions

(***************************************************************************)
(* C8.  With word problems requested, the list the build returns holds at  *)
(* least one word-problem slot; every word-problem slot of it is a         *)
(* placeholder (sentinel prompt, answer 0, the word-problem kind of the    *)
(* difficulty), and when no slot drew a placeholder it is slot 0.          *)
(***************************************************************************)
C8_AtLeastOnePlaceholder ==
    (runs # << >> /\ config.include_words) =>
        /\ \E i \in DOMAIN questions : contains_word_problem(questions[i].kind)
        /\ \A i \in DOMAIN questions :
              contains_word_problem(questions[i].kind) =>
                  /\ questions[i].prompt = LoadingPrompt
                  /\ questions[i].answer = 0
                  /\ questions[i].kind = word_kind(config)
        /\ runs[1].ai_count = 0 =>
              /\ questions[1].prompt = LoadingPrompt
              /\ questions[1].answer = 0
              /\ contains_word_problem(questions[1].kind)

\* No slot drew a placeholder, and slot 0 was converted.
C8_Witness ==
    /\ runs # << >>
    /\ config.include_words
    /\ runs[1].ai_count = 0
    /\ questions[1].prompt = LoadingPrompt
    /\ \A i \in DOMAIN questions : i > 1 => ~contains_word_problem(questions[i].kind)

(***************************************************************************)
(* C2.  A word-problem slot that is still a pending placeholder (sentinel  *)
(* prompt) when "Check Answers" runs is graded incorrect, whatever the     *)
(* user answered.                                                          *)
(***************************************************************************)
C2_PendingGradedIncorrect ==
    [][ CheckAnswers =>
          \A i \in DOMAIN questions :
              questions[i].prompt = LoadingPrompt =>
                  questions'[i].is_correct = Some(FALSE) ]_vars

(***************************************************************************)
(* C3.  A resolution of a full-quiz run changes only prompt, answer and    *)
(* kind of the slot it resolves: between the list published before its     *)
(* republish and the list it publishes, every user_answer, every graded    *)
(* flag and every other slot are unchanged.                                *)
(***************************************************************************)
\* questions' differs from questions at most in the content of slot idx
OnlySlotContentChanged(idx) ==
    /\ Len(questions') = Len(questions)
    /\ \A i \in DOMAIN questions :
          /\ questions'[i].user_answer = questions[i].user_answer
          /\ questions'[i].is_correct = questions[i].is_correct
          /\ i # idx + 1 => questions'[i] = questions[i]

C3_RunResolveFrame ==
    [][ \A req \in net, outcome \in Outcomes, data \in AiResponses, stream \in RandomStreams :
            RunResolve(req, outcome, data, stream) => OnlySlotContentChanged(req.slot) ]_vars

(***************************************************************************)
(* C4.  regenerate(index) reads the list published last, changes slot      *)
(* index and republishes: the list it publishes differs from the one       *)
(* published just before only in prompt, answer and kind of slot index.    *)
(***************************************************************************)
C4_RegenFrame ==
    [][ \A req \in net, outcome \in Outcomes, data \in AiResponses, stream \in RandomStreams :
            RegenResolve(req, outcome, data, stream) => OnlySlotContentChanged(req.slot) ]_vars

(***************************************************************************)
(* C5.  Within one full-quiz run the placeholders are resolved in          *)
(* ascending index order, one remote call at a time: a run has at most one *)
(* request outstanding, it is the one for the lowest placeholder the run   *)
(* has not resolved, and everything the run resolved before it has been    *)
(* republished.                                                            *)
(***************************************************************************)
RequestsOf(id) == { r \in net : r.task = <<"generate", id>> }

C5_SequentialAscending ==
    \A id \in DOMAIN runs :
        LET run == runs[id]
        IN  /\ Cardinality(RequestsOf(id)) <= 1
            /\ \A r \in RequestsOf(id) :
                  /\ \A j \in DOMAIN run.ai_indexes :
                        LET slot == run.ai_indexes[j]
                        IN  /\ slot < r.slot => run.qs[slot + 1].prompt # LoadingPrompt
                            /\ slot >= r.slot => run.qs[slot + 1].prompt = LoadingPrompt
                  /\ run.published =
                        1 + Cardinality({ j \in DOMAIN run.ai_indexes : run.ai_indexes[j] < r.slot })

\* A run has resolved its first placeholder and awaits the call for a later one.
C5_Witness ==
    \E id \in DOMAIN runs : \E r \in RequestsOf(id) :
        /\ Len(runs[id].ai_indexes) >= 2
        /\ r.slot > runs[id].ai_indexes[1]
        /\ runs[id].qs[runs[id].ai_indexes[1] + 1].prompt # LoadingPrompt

(***************************************************************************)
(* C6.  Every kind of remote failure is handled the same way, with one     *)
(* attempt and no retry: the slot gets the local fallback (answer a + b    *)
(* for a in 3..15 and b in 2..10, the word-problem kind), no error state   *)
(* is reached, and the run goes on to its next placeholder.                *)
(***************************************************************************)
C6_FailureFallsBack ==
    [][ \A req \in { r \in net : r.task[1] = "generate" /\ runs'[r.task[2]] # runs[r.task[2]] } :
        \A outcome \in Failures, data \in AiResponses, stream \in RandomStreams :
            RunResolve(req, outcome, data, stream) =>
                LET q == questions'[req.slot + 1]
                    id == req.task[2]
                    later == { j \in DOMAIN runs[id].ai_indexes :
                                   runs[id].ai_indexes[j] > req.slot }
                IN  /\ \A other \in Failures : RunResolve(req, other, data, stream)
                    /\ q.prompt[1] = FallbackFmt
                    /\ q.prompt[2] \in 3 .. 15
                    /\ q.prompt[3] \in 2 .. 10
                    /\ q.answer = q.prompt[2] + q.prompt[3]
                    /\ q.kind = word_kind(runs[id].cfg)
                    /\ ~panicked'
                    /\ \A r \in net' : ~(r.task = req.task /\ r.slot = req.slot)
                    /\ IF later = { }
                       THEN runs'[id] = Finished
                       ELSE \E r \in net' :
                               /\ r.task = req.task
                               /\ \E j \in later : r.slot = runs[id].ai_indexes[j]
      ]_vars

\* A failed call has been replaced by a fallback and the run awaits its next call.
C6_Witness ==
    \E id \in DOMAIN runs : \E r \in RequestsOf(id) :
        /\ r.slot > runs[id].ai_indexes[1]
        /\ questions[runs[id].ai_indexes[1] + 1].prompt[1] = FallbackFmt
        /\ questions = runs[id].qs

(***************************************************************************)
(* C7.  Once no run and no regenerate is in flight any more, no question   *)
(* of the published list still carries the sentinel placeholder prompt.    *)
(***************************************************************************)
Quiescent ==
    /\ net = { }
    /\ \A id \in DOMAIN runs : runs[id] = Finished
    /\ \A id \in DOMAIN regens : regens[id] = Regenerated

C7_NoSentinelWhenQuiescent ==
    Quiescent => \A i \in DOMAIN questions : questions[i].prompt # LoadingPrompt

(***************************************************************************)
(* C9.  "Check Answers" sets the graded flag of every question: true iff   *)
(* the user answer, with the whitespace at its ends removed, writes an     *)
(* integer equal to the stored answer, false when that text is empty or    *)
(* writes no integer.  It changes no prompt, answer, kind or user_answer.  *)
(* (Stated for answers of at most nine digits.)                            *)
(***************************************************************************)
\* s without the blanks before its first and after its last non-blank
C9_Core(s) ==
    LET solid == { i \in DOMAIN s : s[i] \notin { " ", "\t", "\n", "\r" } }
    IN  IF solid = { } THEN << >>
        ELSE SubSeq(s, CHOOSE i \in solid : \A j \in solid : i <= j,
                       CHOOSE i \in solid : \A j \in solid : i >= j)

RECURSIVE C9_Pow10(_)
C9_Pow10(n) == IF n = 0 THEN 1 ELSE 10 * C9_Pow10(n - 1)

RECURSIVE C9_Sum(_, _)
C9_Sum(d, i) ==
    IF i > Len(d) THEN 0
    ELSE DigitVal(d[i]) * C9_Pow10(Len(d) - i) + C9_Sum(d, i + 1)

\* whether t writes the integer n in decimal, with an optional sign
C9_Writes(t, n) ==
    LET signed == t # << >> /\ t[1] \in { "+", "-" }
        d == IF signed THEN Tail(t) ELSE t
    IN  /\ d # << >>
        /\ Len(d) <= 9
        /\ \A i \in DOMAIN d : d[i] \in Digits
        /\ n = (IF t[1] = "-" THEN -1 ELSE 1) * C9_Sum(d, 1)

C9_GradeSetsFlags ==
    [][ CheckAnswers =>
          /\ Len(questions') = Len(questions)
          /\ \A i \in DOMAIN questions :
                LET q == questions[i]
                IN  /\ questions'[i].is_correct =
                          Some(C9_Writes(C9_Core(q.user_answer), q.answer))
                    /\ questions'[i].prompt = q.prompt
                    /\ questions'[i].answer = q.answer
                    /\ questions'[i].kind = q.kind
                    /\ questions'[i].user_answer = q.user_answer ]_vars

\* A pass has graded an answer with blanks around it true, and an empty one false.
C9_Witness ==
    /\ show_results
    /\ \E i \in DOMAIN questions :
          /\ questions[i].is_correct = Some(TRUE)
          /\ questions[i].user_answer = <<" ", "7", " ">>
    /\ \E i \in DOMAIN questions :
          /\ questions[i].is_correct = Some(FALSE)
          /\ questions[i].user_answer = << >>

(***************************************************************************)
(* C10.  After every "Check Answers" the score is (the number of questions *)
(* of the published list whose graded flag is true, the length of that     *)
(* list), whatever the score was before.                                   *)
(***************************************************************************)
C10_ScoreRecomputed ==
    [][ CheckAnswers =>
          score' = << Cardinality({ i \in DOMAIN questions' :
                                       questions'[i].is_correct = Some(TRUE) }),
                      Len(questions') >> ]_vars

\* The last of the user's inputs was a pass that counted one correct answer.
C10_Witness ==
    /\ show_results
    /\ events = MaxEvents
    /\ score[1] = 1
    /\ score[2] = Len(questions)
    /\ \E i \in DOMAIN questions : questions[i].is_correct = Some(TRUE)
(***************************************************************************)
(* C11.  "Reset Answers", from any state, leaves every question with an    *)
(* empty user_answer and no graded flag, keeps every prompt, answer and    *)
(* kind, sets the score to (0, length of the list) and hides the results.  *)
(***************************************************************************)
C11_ResetClears ==
    [][ ResetAnswers =>
          /\ Len(questions') = Len(questions)
          /\ \A i \in DOMAIN questions :
                /\ questions'[i].user_answer = << >>
                /\ questions'[i].is_correct = << >>
                /\ questions'[i].prompt = questions[i].prompt
                /\ questions'[i].answer = questions[i].answer
                /\ questions'[i].kind = questions[i].kind
          /\ score' = <<0, Len(questions)>>
          /\ show_results' = FALSE ]_vars

\* A quiz with a resolved word problem as a reset leaves it, after the
\* user's last input: nothing typed, nothing graded, score (0, total),
\* results hidden.
C11_Witness ==
    /\ events = MaxEvents
    /\ Len(runs) = 1
    /\ questions # << >>
    /\ ~show_results
    /\ score = <<0, Len(questions)>>
    /\ \A i \in DOMAIN questions :
          questions[i].user_answer = << >> /\ questions[i].is_correct = << >>
    /\ \E i \in DOMAIN questions :
          contains_word_problem(questions[i].kind) /\ questions[i].prompt # LoadingPrompt

(***************************************************************************)
(* C12.  Editing the answer of question i after grading sets its           *)
(* user_answer to the new text and clears its graded flag only: the other  *)
(* questions, the score and the show-results flag are unchanged by the     *)
(* edit, and once an answer has been edited after a grading, what a run or *)
(* a regenerate publishes before the next grade, reset or generate changes *)
(* no other question's graded flag, nor the score, nor the flag.           *)
(***************************************************************************)
\* an answer was edited after the last grading
C12_EditedAfterGrade ==
    /\ show_results
    /\ \E i \in DOMAIN questions :
          questions[i].is_correct = << >> /\ questions[i].user_answer # << >>
    /\ \E i \in DOMAIN questions : questions[i].is_correct # << >>

C12_EditClearsOnlyItsFlag ==
    [][ /\ \A index \in 0 .. MaxEditSlot, value \in UserInputs :
              AnswerChange(index, value) =>
                  /\ questions'[index + 1].user_answer = value
                  /\ questions'[index + 1].is_correct = << >>
                  /\ questions'[index + 1].prompt = questions[index + 1].prompt
                  /\ questions'[index + 1].answer = questions[index + 1].answer
                  /\ questions'[index + 1].kind = questions[index + 1].kind
                  /\ Len(questions') = Len(questions)
                  /\ \A i \in DOMAIN questions : i # index + 1 => questions'[i] = questions[i]
                  /\ score' = score
                  /\ show_results' = show_results
        /\ \A req \in net, outcome \in Outcomes, data \in AiResponses, stream \in RandomStreams :
              ( /\ C12_EditedAfterGrade
                /\ \/ RunResolve(req, outcome, data, stream)
                   \/ RegenResolve(req, outcome, data, stream) ) =>
                  /\ Len(questions') = Len(questions)
                  /\ \A i \in DOMAIN questions :
                        questions[i].is_correct # << >> =>
                            questions'[i].is_correct = questions[i].is_correct
                  /\ score' = score
                  /\ show_results' = show_results ]_vars

(***************************************************************************)
(* C13.  Every resolution of a placeholder by a run, by the remote result  *)
(* or by the fallback, republishes the whole list once before the next     *)
(* placeholder is processed: the list published shows the placeholders of  *)
(* the run up to this one resolved and the later ones pending, it is       *)
(* publish number 1 + (placeholders resolved so far) of the run, and the   *)
(* publish of the last placeholder is number k + 1 for k placeholders.     *)
(***************************************************************************)
C13_RepublishPerResolution ==
    [][ \A req \in { r \in net : r.task[1] = "generate" /\ runs'[r.task[2]] # runs[r.task[2]] } :
        \A outcome \in Outcomes, data \in AiResponses, stream \in RandomStreams :
            RunResolve(req, outcome, data, stream) =>
                LET id == req.task[2]
                    run == runs[id]
                    done == { j \in DOMAIN run.ai_indexes : run.ai_indexes[j] <= req.slot }
                IN  /\ Len(questions') = Len(run.qs)
                    /\ \A j \in DOMAIN run.ai_indexes :
                          IF j \in done
                          THEN questions'[run.ai_indexes[j] + 1].prompt # LoadingPrompt
                          ELSE questions'[run.ai_indexes[j] + 1].prompt = LoadingPrompt
                    /\ run.published = Cardinality(done)
                    /\ IF Cardinality(done) = Len(run.ai_indexes)
                       THEN /\ runs'[id] = Finished
                            /\ run.published + 1 = Len(run.ai_indexes) + 1
                       ELSE /\ runs'[id].published = run.published + 1
                            /\ \A r \in net' \ net : r.slot > req.slot
      ]_vars

\* A run of two placeholders has made its second publish, the list with the
\* first placeholder resolved, and awaits the call for the second.
C13_Witness ==
    \E id \in DOMAIN runs : \E r \in RequestsOf(id) :
        /\ Len(runs[id].ai_indexes) = 2
        /\ runs[id].published = 2
        /\ questions = runs[id].qs
        /\ questions[runs[id].ai_indexes[1] + 1].prompt # LoadingPrompt
        /\ questions[runs[id].ai_indexes[2] + 1].prompt = LoadingPrompt
        /\ r.slot = runs[id].ai_indexes[2]

(***************************************************************************)
(* C14.  A run and a regenerate can be in flight at the same time, and the *)
(* list is last-write-wins: what a run publishes is its own copy of the    *)
(* list with the resolved slot set, so every other slot of the published   *)
(* list is replaced by the run's copy, the content a regenerate wrote to   *)
(* it in the meantime included.                                            *)
(***************************************************************************)
C14_LastWriteWins ==
    [][ \A req \in { r \in net : r.task[1] = "generate" /\ runs'[r.task[2]] # runs[r.task[2]] } :
        \A outcome \in Outcomes, data \in AiResponses, stream \in RandomStreams :
            RunResolve(req, outcome, data, stream) =>
                /\ Len(questions') = Len(runs[req.task[2]].qs)
                /\ \A i \in DOMAIN questions' :
                      i # req.slot + 1 => questions'[i] = runs[req.task[2]].qs[i]
      ]_vars

\* While the only run awaits a call, a regenerate has come and gone and has
\* written a slot the run's copy still holds as a placeholder: the run's next
\* republish puts the placeholder back over what the regenerate wrote.
C14_Witness ==
    /\ Len(runs) = 1
    /\ RequestsOf(1) # { }
    /\ regens # << >>
    /\ \A g \in DOMAIN regens : regens[g] = Regenerated
    /\ Len(questions) = Len(runs[1].qs)
    /\ \E i \in DOMAIN questions :
          /\ questions[i].prompt # LoadingPrompt
          /\ runs[1].qs[i].prompt = LoadingPrompt
          /\ \A r \in RequestsOf(1) : r.slot + 1 # i

(***************************************************************************)
(* C19.  "Generate Quiz" publishes the complete skeleton (question_count   *)
(* rows, every word-problem row a pending placeholder, every user_answer   *)
(* empty and every graded flag unset), sets the score to                   *)
(* (0, question_count) and hides the results, and only then issues the     *)
(* first remote request of the run, the one for its first placeholder.     *)
(***************************************************************************)
C19_SkeletonFirst ==
    [][ \A stream \in { st \in RandomStreams : Len(runs') = Len(runs) + 1 } :
            Generate(stream) =>
                LET id == Len(runs')
                    pending == { i \in DOMAIN questions' : questions'[i].prompt = LoadingPrompt }
                IN  /\ Len(questions') = config.num_questions
                    /\ \A i \in DOMAIN questions' :
                          /\ questions'[i].user_answer = << >>
                          /\ questions'[i].is_correct = << >>
                          /\ questions'[i].kind[1] = "Word Problem ({})" =>
                                questions'[i].prompt = LoadingPrompt /\ questions'[i].answer = 0
                    /\ score' = <<0, config.num_questions>>
                    /\ show_results' = FALSE
                    /\ Cardinality(net' \ net) = IF pending = { } THEN 0 ELSE 1
                    /\ \A r \in net' \ net :
                          /\ r.task = <<"generate", id>>
                          /\ r.slot + 1 \in pending
                          /\ \A i \in pending : r.slot + 1 <= i
                          /\ runs'[id].published = 1
                          /\ runs'[id].qs = questions'
      ]_vars

\* After a first quiz and a change of the count to 5, a second quiz has been
\* generated: its skeleton of 5 rows is published, ungraded, with the results
\* hidden, and the call for its first placeholder is in flight.
C19_Witness ==
    /\ Len(runs) = 2
    /\ config.num_questions = 5
    /\ RequestsOf(2) # { }
    /\ runs[2].published = 1
    /\ questions = runs[2].qs
    /\ Len(questions) = 5
    /\ score = <<0, 5>>
    /\ ~show_results
    /\ \E i \in DOMAIN questions : questions[i].prompt = LoadingPrompt

(***************************************************************************)
(* C20.  Every remote request of a run carries the difficulty code and the *)
(* max_number (9 Easy, 99 Moderate, 999 Advanced) of the configuration as  *)
(* it was when the run was started, and every slot the run resolves gets   *)
(* the word-problem kind with that difficulty as its tag, also when the    *)
(* configuration has been changed while the run was in flight.             *)
(***************************************************************************)
\* the request body of a difficulty, and the tag of a request body
C20_Body(diff) ==
    IF diff = "Easy" THEN [ difficulty |-> "easy", max_number |-> 9 ]
    ELSE IF diff = "Moderate" THEN [ difficulty |-> "moderate", max_number |-> 99 ]
    ELSE [ difficulty |-> "advanced", max_number |-> 999 ]

C20_Tag(body) ==
    IF body.difficulty = "easy" THEN "Easy"
    ELSE IF body.difficulty = "moderate" THEN "Moderate" ELSE "Advanced"

C20_RunKeepsStartConfig ==
    [][ /\ \A stream \in { st \in RandomStreams : Len(runs') = Len(runs) + 1 } :
              Generate(stream) =>
                  \A r \in net' \ net : r.body = C20_Body(config.difficulty)
        /\ \A req \in { r \in net : r.task[1] = "generate" /\ runs'[r.task[2]] # runs[r.task[2]] } :
           \A outcome \in Outcomes, data \in AiResponses, stream \in RandomStreams :
              RunResolve(req, outcome, data, stream) =>
                  /\ req.body \in { C20_Body(d) : d \in Difficulty }
                  /\ questions'[req.slot + 1].kind = <<"Word Problem ({})", C20_Tag(req.body)>>
                  /\ \A r \in net' \ net : r.task = req.task /\ r.body = req.body
      ]_vars

\* The difficulty was set to Advanced before the run started and back to Easy
\* while it was in flight: the run has resolved a slot with the Advanced tag
\* and its next request carries "advanced" and 999.
C20_Witness ==
    \E id \in DOMAIN runs : \E r \in RequestsOf(id) :
        /\ config.difficulty = "Easy"
        /\ r.body = [ difficulty |-> "advanced", max_number |-> 999 ]
        /\ runs[id].published = 2
        /\ questions = runs[id].qs
        /\ \E i \in DOMAIN questions :
              /\ questions[i].prompt # LoadingPrompt
              /\ questions[i].kind = <<"Word Problem ({})", "Advanced">>

(***************************************************************************)
(* C15.  With no operation enabled and word problems off, the build does   *)
(* not fail, and every question of the list it returns is an addition: the *)
(* kind label is Addition and the answer is the sum of the two operands of *)
(* the prompt.                                                             *)
(***************************************************************************)
C15_DeadConfig ==
    /\ ~config.include_add /\ ~config.include_sub
    /\ ~config.include_mul /\ ~config.include_div
    /\ ~config.include_words

C15_EmptyOpsAllAddition ==
    C15_DeadConfig =>
        /\ ~panicked
        /\ runs # << >> =>
              /\ Len(questions) = config.num_questions
              /\ \A i \in DOMAIN questions :
                    /\ questions[i].kind = <<"Addition", "">>
                    /\ questions[i].prompt[1] = "{a} + {b} = ?"
                    /\ questions[i].answer = questions[i].prompt[2] + questions[i].prompt[3]

\* The build has returned twenty additions for the dead configuration.
C15_Witness ==
    /\ C15_DeadConfig
    /\ runs # << >>
    /\ Len(questions) = 20
    /\ \A i \in DOMAIN questions : questions[i].kind = <<"Addition", "">>
    /\ \E i \in DOMAIN questions : questions[i].answer > 0

(***************************************************************************)
(* C16.  A subtraction question has its first operand a in the range of    *)
(* the difficulty ([0,9] Easy, [10,99] Moderate, [100,999] Advanced), its   *)
(* second operand b in [0,a], and answer a - b, which is not negative.     *)
(***************************************************************************)
C16_Range(diff) ==
    IF diff = "Easy" THEN 0 .. 9 ELSE IF diff = "Moderate" THEN 10 .. 99 ELSE 100 .. 999

C16_SubNonNegative ==
    \A i \in DOMAIN questions :
        questions[i].kind = <<"Subtraction", "">> =>
            LET a == questions[i].prompt[2]
                b == questions[i].prompt[3]
            IN  /\ a \in C16_Range(config.difficulty)
                /\ b \in 0 .. a
                /\ questions[i].answer = a - b
                /\ questions[i].answer >= 0

\* A subtraction whose second operand is as large as the first, 9 - 9.
C16_Witness ==
    \E i \in DOMAIN questions :
        /\ questions[i].kind = <<"Subtraction", "">>
        /\ questions[i].prompt[2] = 9
        /\ questions[i].prompt[3] = 9
        /\ questions[i].answer = 0

(***************************************************************************)
(* C17.  A division question has its divisor in [1, max_q], so never 0,    *)
(* its stored answer, the quotient, in [min_q, max_q] where (min_q, max_q) *)
(* is (1,9) Easy, (2,12) Moderate, (5,20) Advanced, and the dividend shown *)
(* in the prompt is answer * divisor exactly.                              *)
(***************************************************************************)
C17_Quotients(diff) ==
    IF diff = "Easy" THEN <<1, 9>> ELSE IF diff = "Moderate" THEN <<2, 12>> ELSE <<5, 20>>

C17_DivExact ==
    \A i \in DOMAIN questions :
        questions[i].kind = <<"Division", "">> =>
            LET dividend == questions[i].prompt[2]
                divisor == questions[i].prompt[3]
                q == C17_Quotients(config.difficulty)
            IN  /\ divisor \in 1 .. q[2]
                /\ questions[i].answer \in q[1] .. q[2]
                /\ dividend = questions[i].answer * divisor
                /\ dividend % divisor = 0

\* An advanced division by the smallest divisor, and the smallest quotient.
C17_Witness ==
    \E i \in DOMAIN questions :
        /\ questions[i].kind = <<"Division", "">>
        /\ config.difficulty = "Advanced"
        /\ questions[i].prompt[3] = 1
        /\ questions[i].answer = 5

(***************************************************************************)
(* C18.  An addition question has both operands in the range of the        *)
(* difficulty ([0,9] Easy, [10,99] Moderate, [100,999] Advanced) and its   *)
(* stored answer is their sum.                                             *)
(***************************************************************************)
C18_Range(diff) ==
    CASE diff = "Easy" -> 0 .. 9 [] diff = "Moderate" -> 10 .. 99 [] diff = "Advanced" -> 100 .. 999

C18_AddInRange ==
    \A i \in DOMAIN questions :
        questions[i].kind = <<"Addition", "">> =>
            LET a == questions[i].prompt[2]
                b == questions[i].prompt[3]
            IN  /\ a \in C18_Range(config.difficulty)
                /\ b \in C18_Range(config.difficulty)
                /\ questions[i].answer = a + b

\* An easy addition of the largest and the smallest operand, 9 + 0.
C18_Witness ==
    \E i \in DOMAIN questions :
        /\ questions[i].kind = <<"Addition", "">>
        /\ config.difficulty = "Easy"
        /\ questions[i].prompt[2] = 9
        /\ questions[i].prompt[3] = 0
        /\ questions[i].answer = 9
(***************************************************************************)
(* C21.  config.num_questions is in 5..20 in every state: it is 10 before  *)
(* the first input, a count text that writes a number below 5 is stored as *)
(* 5, one above 20 as 20, one from 5 to 20 as itself, and a text that      *)
(* parse::<usize> does not accept (empty, not a number, blanks, a          *)
(* fraction, a minus sign, more than usize holds) as 10; the other         *)
(* handlers of the form leave the count unchanged.                         *)
(***************************************************************************)
\* the count each text of the field is to be stored as
C21_Stored(text) ==
    CASE text = <<"3">> -> 5
      [] text = <<"0">> -> 5
      [] text = <<"4">> -> 5
      [] text = <<"5">> -> 5
      [] text = <<"1", "2">> -> 12
      [] text = <<"2", "0">> -> 20
      [] text = <<"2", "1">> -> 20
      [] text = <<"9", "9", "9">> -> 20
      [] text = <<"0", "0", "7">> -> 7
      [] text = <<"+", "7">> -> 7
      [] text = <<"4", "2", "9", "4", "9", "6", "7", "2", "9", "5">> -> 20
      [] OTHER -> 10

C21_CountClamped ==
    [][ /\ events = 0 => config.num_questions = 10
        /\ config.num_questions \in 5 .. 20
        /\ config'.num_questions \in 5 .. 20
        /\ \A text \in CountTexts :
              on_num_questions(text) => config'.num_questions = C21_Stored(text)
        /\ config'.num_questions # config.num_questions =>
              \E text \in CountTexts : on_num_questions(text) ]_vars

\* The count has been brought to 20 by a text above 20, and the difficulty
\* was changed afterwards.
C21_Witness ==
    /\ config.num_questions = 20
    /\ config.difficulty = "Moderate"
    /\ ~config.include_add
    /\ events = 3

(***************************************************************************)
(* C22.  In every reachable state the total of the score is the length of  *)
(* the published list, and the correct count is at most the total.         *)
(***************************************************************************)
C22_ScoreTotalIsLength ==
    /\ score[2] = Len(questions)
    /\ score[1] <= score[2]

(***************************************************************************)
(* C23.  In every reachable state a question whose graded flag is true has *)
(* a user_answer that, with the blanks at its ends removed, writes the     *)
(* answer the question stores now.                                         *)
(***************************************************************************)
C23_TrueFlagMatchesAnswer ==
    \A i \in DOMAIN questions :
        questions[i].is_correct = <<TRUE>> =>
            C9_Writes(C9_Core(questions[i].user_answer), questions[i].answer)

(***************************************************************************)
(* C24.  Once a later generate has published its list, a call of an        *)
(* earlier run that resolves afterwards does not change the length of the  *)
(* published list and replaces none of its questions, other than the slot  *)
(* it resolves, by a question of the earlier run.                          *)
(***************************************************************************)
C24_EarlierRunKeepsNewQuiz ==
    [][ \A req \in { r \in net : r.task[1] = "generate" /\ r.task[2] < Len(runs) } :
        \A outcome \in Outcomes, data \in AiResponses, stream \in RandomStreams :
            RunResolve(req, outcome, data, stream) =>
                /\ Len(questions') = Len(questions)
                /\ \A i \in DOMAIN questions :
                      i # req.slot + 1 =>
                          /\ questions'[i].prompt = questions[i].prompt
                          /\ questions'[i].answer = questions[i].answer
                          /\ questions'[i].kind = questions[i].kind
      ]_vars
====
